---- MODULE Spec2Model ----
(***************************************************************************)
(* Microsoft SSO authentication bridge: src/blocks/header/customAuth.js.   *)
(*                                                                         *)
(* The module bootstrap (initializeMSAL) and a bounded number of login     *)
(* attempts (handleMsSsoLogin) run on one event loop.  Every action is the *)
(* code that runs between two suspension points (await) of one of them;    *)
(* continuations that are separated only by the resolution of a promise of *)
(* the login flow's own async functions are taken in the same action.  The *)
(* click handler of the trigger control resumes in an action of its own.   *)
(***************************************************************************)
EXTENDS Integers, Sequences, FiniteSets, TLC

(* ------------------------------ bounds -------------------------------- *)

\* number of invocations of handleMsSsoLogin in one page life
NumAttempts == 2
\* latest reading of the clock, in milliseconds after the first
MaxClock == 1

\* number of containers addMsSsoButton is called on
NumContainers == 1
\* number of calls of addMsSsoButton on one container
MaxAddCalls == 2

Attempts == 1..NumAttempts
Containers == 1..NumContainers

(* --------------------------- JavaScript values ------------------------ *)

Str(s) == [t |-> "string", v |-> s]
Undefined == [t |-> "undefined", v |-> "undefined"]
Null == [t |-> "null", v |-> "null"]
Num42 == [t |-> "number", v |-> "42"]
ErrorObj(m) == [t |-> "Error", v |-> m]

\* ToBoolean of the values above
Truthy(x) == /\ x.t \notin {"undefined", "null"}
             /\ ~(x.t = "string" /\ x.v = "")

\* `${x}` of a template literal
ToStr(x) == IF x.t = "Error" THEN "Error: " \o x.v ELSE x.v

\* x.message: throws a TypeError on null and undefined, is undefined on a
\* value that is not an Error object
CanReadProperty(x) == x.t \notin {"undefined", "null"}
MessageOf(x) == IF x.t = "Error" THEN Str(x.v) ELSE Undefined

(* ----------------------------- constants ------------------------------ *)

TOKEN_COOKIE == "auth_dropin_user_token"
FIRSTNAME_COOKIE == "auth_dropin_firstname"
CookieNames == {TOKEN_COOKIE, FIRSTNAME_COOKIE}

\* expirationDate.getTime() + (3600 * 1000)
COOKIE_TTL_MS == 3600 * 1000

NOT_INITIALIZED_MSG == "MSAL not initialized. Please check CDN loading."
BACKEND_FALLBACK_MSG == "SSO backend error"
MISSING_TOKEN_MSG == "No commerce token received from backend"
SUBSTRING_TYPEERROR_MSG == "substring is not a function"
JSON_SYNTAXERROR_MSG == "Unexpected token < in JSON"

\* the hardcoded response of the localhost branch
MockMsResponse == [source |-> "mock", accessToken |-> "eyJ0eXAiOiJKV1QiLCJub25jZSI6..."]
\* what msalInstance.loginPopup resolves with
ProviderMsResponse == [source |-> "provider", accessToken |-> "provider-access-token"]
NoMsResponse == [source |-> "none", accessToken |-> ""]

(* ------------------------------ inputs -------------------------------- *)

Hostnames == {"localhost", "shop.example.com"}
Protocols == {"http:", "https:"}

\* values a rejected promise of the provider or of fetch can carry
RejectionValues == {ErrorObj("user_cancelled"), Undefined, Str("oops")}

NoErrors == [present |-> FALSE, items |-> << >>]
ErrorsArray(items) == [present |-> TRUE, items |-> items]
ErrorsValues == { NoErrors,
                  ErrorsArray(<< >>),
                  ErrorsArray(<< [message |-> Str("invalid token")] >>),
                  ErrorsArray(<< [message |-> Undefined] >>) }

SsoLogin(token, firstName) == [commerce_customer_token |-> token, firstName |-> firstName]
NoData == [present |-> FALSE, ssoPresent |-> FALSE, ssoLogin |-> SsoLogin(Undefined, Undefined)]
DataWithout == [present |-> TRUE, ssoPresent |-> FALSE, ssoLogin |-> SsoLogin(Undefined, Undefined)]
DataWith(sso) == [present |-> TRUE, ssoPresent |-> TRUE, ssoLogin |-> sso]
DataValues == { NoData,
                DataWithout,
                DataWith(SsoLogin(Undefined, Str("X"))),
                DataWith(SsoLogin(Str("T1"), Str("Jayesh"))),
                DataWith(SsoLogin(Str("T2"), Undefined)),
                DataWith(SsoLogin(Num42, Str("Jayesh"))) }

\* bodies response.json() can resolve with
BackendResults ==
  { r \in [errors : ErrorsValues, data : DataValues] :
      r.errors.present => r.data \in {NoData, DataWith(SsoLogin(Str("T1"), Str("Jayesh")))} }
NoResult == [errors |-> NoErrors, data |-> NoData]

\* outcomes of import('../../scripts/commerce.js') and of the setHeaders call
ImportOutcomes == {"rejected", "noSetHeaders", "setHeaders"}

NoCredential == SsoLogin(Undefined, Undefined)
NoCookie == [set |-> FALSE, value |-> "", path |-> "", expires |-> 0,
             secure |-> FALSE, sameSite |-> "", by |-> 0]
NoHeader == "none"

(* ------------------------------- state -------------------------------- *)

VARIABLES
  hostname,        \* window.location.hostname
  protocol,        \* window.location.protocol
  panel,           \* .nav-auth-menu-panel: "absent", "shown" or "closed"
  now,             \* the latest reading of new Date().getTime()
  bootPc,          \* position of initializeMSAL
  msalInstance,    \* the module's singleton
  pc,              \* position of each invocation of handleMsSsoLogin
  msAuthResponse,  \* result of loginWithMicrosoft
  commerceAuth,    \* result of exchangeTokenWithBackend
  caught,          \* the value caught by handleMsSsoLogin
  outcome,         \* how the promise of handleMsSsoLogin settled
  alerts,          \* text passed to alert()
  cookies,         \* document.cookie
  authHeader,      \* Authorization header of CORE_FETCH_GRAPHQL
  emitted,         \* events emitted on the bus, oldest first
  wrote,           \* cookie names each attempt assigned to document.cookie
  popupOpened,     \* attempts that called msalInstance.loginPopup
  requestSent,     \* attempts that called fetch
  lastResult,      \* the most recent body response.json() resolved with
  overlaps,        \* attempts, not failed, during which another attempt returned true
  buttons,         \* the children each container got from addMsSsoButton
  addCalls         \* number of calls of addMsSsoButton on each container

vars == << hostname, protocol, panel, now, bootPc, msalInstance, pc,
           msAuthResponse, commerceAuth, caught, outcome, alerts, cookies,
           authHeader, emitted, wrote, popupOpened, requestSent, lastResult,
           overlaps, buttons, addCalls >>

envVars == << hostname, protocol >>
bootVars == << bootPc, msalInstance >>
uiVars == << buttons, addCalls >>
attemptVars == << panel, pc, msAuthResponse, commerceAuth, caught, outcome,
                  alerts, cookies, authHeader, emitted, wrote, popupOpened,
                  requestSent, lastResult >>

NullInstance == [set |-> FALSE, initialized |-> FALSE]
\* new window.msal.PublicClientApplication(...), before initialize() resolves
NewInstance == [set |-> TRUE, initialized |-> FALSE]

\* what the CDN script leaves in window.msal
MsalGlobals == {"absent", "present", "constructorThrows"}

Init ==
  /\ hostname \in Hostnames
  /\ protocol \in Protocols
  /\ panel \in {"absent", "shown"}
  /\ now = 0
  /\ bootPc = "import"
  /\ msalInstance = NullInstance
  /\ pc = [a \in Attempts |-> "idle"]
  /\ msAuthResponse = [a \in Attempts |-> NoMsResponse]
  /\ commerceAuth = [a \in Attempts |-> NoCredential]
  /\ caught = [a \in Attempts |-> Undefined]
  /\ outcome = [a \in Attempts |-> "pending"]
  /\ alerts = [a \in Attempts |-> << >>]
  /\ cookies = [n \in CookieNames |-> NoCookie]
  /\ authHeader = NoHeader
  /\ emitted = << >>
  /\ wrote = [a \in Attempts |-> {}]
  /\ popupOpened = [a \in Attempts |-> FALSE]
  /\ requestSent = [a \in Attempts |-> FALSE]
  /\ lastResult = [attempt |-> 0, result |-> NoResult]
  /\ overlaps = {}
  /\ buttons = [c \in Containers |-> << >>]
  /\ addCalls = [c \in Containers |-> 0]

(* ----------------------- bootstrap: initializeMSAL -------------------- *)

\* import('../../scripts/aem.js') resolves: loadScript is called
BootImportResolves ==
  /\ bootPc = "import"
  /\ bootPc' = "loadScript"
  /\ UNCHANGED << msalInstance, overlaps, uiVars, envVars, now, attemptVars >>

\* import('../../scripts/aem.js') rejects: the await is outside the try, the
\* promise of initializeMSAL rejects and the module's .catch logs it
BootImportRejects ==
  /\ bootPc = "import"
  /\ bootPc' = "rejected"
  /\ UNCHANGED << msalInstance, overlaps, uiVars, envVars, now, attemptVars >>

\* loadScript rejects: caught, warning logged
LoadScriptRejects ==
  /\ bootPc = "loadScript"
  /\ bootPc' = "degraded"
  /\ UNCHANGED << msalInstance, overlaps, uiVars, envVars, now, attemptVars >>

\* loadScript resolves: the global is tested, the client constructed and
\* assigned to the singleton, initialize() called
LoadScriptResolves(global) ==
  /\ bootPc = "loadScript"
  /\ IF global = "present"
       THEN /\ msalInstance' = NewInstance
            /\ bootPc' = "initialize"
       ELSE /\ msalInstance' = msalInstance
            /\ bootPc' = "degraded"
  /\ UNCHANGED << overlaps, uiVars, envVars, now, attemptVars >>

\* msalInstance.initialize() resolves
InitializeResolves ==
  /\ bootPc = "initialize"
  /\ msalInstance' = [msalInstance EXCEPT !.initialized = TRUE]
  /\ bootPc' = "initialized"
  /\ UNCHANGED << overlaps, uiVars, envVars, now, attemptVars >>

\* msalInstance.initialize() rejects: caught, warning logged; the singleton
\* assigned before the await is left as it is
InitializeRejects ==
  /\ bootPc = "initialize"
  /\ bootPc' = "degraded"
  /\ UNCHANGED << msalInstance, overlaps, uiVars, envVars, now, attemptVars >>

(* ------------------------- pure parts of the stages ------------------- *)

\* variant: an unset singleton falls back to the mock response
AcquirePath_MockFallback(host, instance) ==
  IF host = "localhost" THEN "mock"
  ELSE IF instance.set THEN "popup"
  ELSE "mock"

\* variant: the singleton is tested before the hostname
AcquirePath_InstanceFirst(host, instance) ==
  IF instance.set THEN "popup"
  ELSE IF host = "localhost" THEN "mock"
  ELSE "notInitialized"

\* loginWithMicrosoft: which branch an attempt takes
AcquirePath(host, instance) ==
  IF host = "localhost" THEN "mock"
  ELSE IF instance.set THEN "popup"
  ELSE "notInitialized"

\* result.errors[0]?.message || 'SSO backend error'
BackendErrorMessage(errors) ==
  IF Len(errors.items) > 0 /\ Truthy(errors.items[1].message)
    THEN ToStr(errors.items[1].message)
    ELSE BACKEND_FALLBACK_MSG

\* result.data?.ssoLogin?.commerce_customer_token
TokenOf(result) ==
  IF result.data.present /\ result.data.ssoPresent
    THEN result.data.ssoLogin.commerce_customer_token
    ELSE Undefined

\* variant: the token is looked for before result.errors is tested
ValidateResult_TokenBeforeErrors(result) ==
  IF Truthy(TokenOf(result)) /\ TokenOf(result).t = "string"
    THEN [ok |-> TRUE, error |-> Undefined, value |-> result.data.ssoLogin]
  ELSE IF result.errors.present
    THEN [ok |-> FALSE, error |-> ErrorObj(BackendErrorMessage(result.errors)),
          value |-> NoCredential]
  ELSE [ok |-> FALSE, error |-> ErrorObj(MISSING_TOKEN_MSG), value |-> NoCredential]

\* variant: no test of the token; the logging of token.length throws on a
\* missing token
ValidateResult_NoTokenCheck(result) ==
  IF result.errors.present
    THEN [ok |-> FALSE, error |-> ErrorObj(BackendErrorMessage(result.errors)),
          value |-> NoCredential]
  ELSE IF ~Truthy(TokenOf(result))
    THEN [ok |-> FALSE, error |-> ErrorObj("Cannot read properties of undefined"),
          value |-> NoCredential]
  ELSE IF TokenOf(result).t # "string"
    THEN [ok |-> FALSE, error |-> ErrorObj(SUBSTRING_TYPEERROR_MSG), value |-> NoCredential]
  ELSE [ok |-> TRUE, error |-> Undefined, value |-> result.data.ssoLogin]

\* variant: no logging of token.substring(0, 50) in the exchange stage
ValidateResult_NoSubstringLog(result) ==
  IF result.errors.present
    THEN [ok |-> FALSE, error |-> ErrorObj(BackendErrorMessage(result.errors)),
          value |-> NoCredential]
  ELSE IF ~Truthy(TokenOf(result))
    THEN [ok |-> FALSE, error |-> ErrorObj(MISSING_TOKEN_MSG), value |-> NoCredential]
  ELSE [ok |-> TRUE, error |-> Undefined, value |-> result.data.ssoLogin]

\* exchangeTokenWithBackend after response.json(): the checks, the logging
\* of token.substring(0, 50), the return
ValidateResult(result) ==
  IF result.errors.present
    THEN [ok |-> FALSE, error |-> ErrorObj(BackendErrorMessage(result.errors)),
          value |-> NoCredential]
  ELSE IF ~Truthy(TokenOf(result))
    THEN [ok |-> FALSE, error |-> ErrorObj(MISSING_TOKEN_MSG), value |-> NoCredential]
  ELSE IF TokenOf(result).t # "string"
    THEN [ok |-> FALSE, error |-> ErrorObj(SUBSTRING_TYPEERROR_MSG), value |-> NoCredential]
  ELSE [ok |-> TRUE, error |-> Undefined, value |-> result.data.ssoLogin]

\* variant: isLocalhost needs both the hostname and the protocol to match
SecureFlag_BothNeeded(host, proto) == ~(host = "localhost" /\ proto = "http:")

\* isLocalhost ? '' : 'Secure;'
SecureFlag(host, proto) == ~(host = "localhost" \/ proto = "http:")

\* one assignment to document.cookie
CookieString(value, expires, secure, a) ==
  [set |-> TRUE, value |-> ToStr(value), path |-> "/", expires |-> expires,
   secure |-> secure, sameSite |-> "Lax", by |-> a]

\* variant: the expiry of the second cookie is computed from a second new Date()
SetAuthenticationCookies_TwoDates(token, firstName, time, host, proto, a) ==
  LET secure == SecureFlag(host, proto)
  IN [cookies |-> [n \in CookieNames |->
                     IF n = TOKEN_COOKIE
                       THEN CookieString(token, time + COOKIE_TTL_MS, secure, a)
                       ELSE CookieString(firstName, time + 1 + COOKIE_TTL_MS, secure, a)],
      written |-> CookieNames,
      threw |-> token.t # "string"]

\* variant: the first-name cookie is written only when there is a first name
SetAuthenticationCookies_SkipMissingName(token, firstName, time, host, proto, a) ==
  LET expires == time + COOKIE_TTL_MS
      secure == SecureFlag(host, proto)
  IN [cookies |-> [n \in CookieNames |->
                     IF n = TOKEN_COOKIE
                       THEN CookieString(token, expires, secure, a)
                       ELSE CookieString(firstName, expires, secure, a)],
      written |-> IF Truthy(firstName) THEN CookieNames ELSE {TOKEN_COOKIE},
      threw |-> token.t # "string"]

\* setAuthenticationCookies: the two assignments to document.cookie, then the
\* logging of token.substring(0, 50), which throws on a token with no such method
SetAuthenticationCookies(token, firstName, time, host, proto, a) ==
  LET expires == time + COOKIE_TTL_MS
      secure == SecureFlag(host, proto)
  IN [cookies |-> [n \in CookieNames |->
                     IF n = TOKEN_COOKIE
                       THEN CookieString(token, expires, secure, a)
                       ELSE CookieString(firstName, expires, secure, a)],
      written |-> CookieNames,
      threw |-> token.t # "string"]

\* variant: the token is set as the header without the Bearer scheme
HeaderAfter_NoScheme(header, importOutcome, token) ==
  IF importOutcome = "setHeaders" THEN ToStr(token) ELSE header

\* triggerAuthenticationEvent up to the emit: the header is set when the import
\* resolved with an object that has a setHeaders function
HeaderAfter(header, importOutcome, token) ==
  IF importOutcome = "setHeaders" THEN "Bearer " \o ToStr(token) ELSE header

AuthenticatedEvent(a) == [topic |-> "authenticated", payload |-> TRUE, by |-> a]

(* ----------------------- login attempt: handleMsSsoLogin -------------- *)

\* the catch block of handleMsSsoLogin: alert(`Login failed: ${error.message}`)
\* and return false; reading .message of null or undefined throws from inside
\* the catch block and the returned promise rejects
HandleFailure(a, error) ==
  /\ caught' = [caught EXCEPT ![a] = error]
  /\ pc' = [pc EXCEPT ![a] = "done"]
  /\ overlaps' = overlaps \ {a}
  /\ IF CanReadProperty(error)
       THEN /\ alerts' = [alerts EXCEPT ![a] =
                            Append(@, "Login failed: " \o ToStr(MessageOf(error)))]
            /\ outcome' = [outcome EXCEPT ![a] = "false"]
       ELSE /\ alerts' = alerts
            /\ outcome' = [outcome EXCEPT ![a] = "rejected"]

\* the attempt has been invoked and has not completed
InFlight(a) == pc[a] \notin {"idle", "done"}

\* handleMsSsoLogin is called: loginWithMicrosoft runs to its first await or throws
StartAttempt(a) ==
  /\ pc[a] = "idle"
  /\ IF a = 1 THEN TRUE ELSE pc[a - 1] # "idle"
  /\ LET path == AcquirePath(hostname, msalInstance) IN
       /\ popupOpened' = [popupOpened EXCEPT ![a] = (path = "popup")]
       /\ IF path = "mock"
            THEN /\ pc' = [pc EXCEPT ![a] = "delay"]
                 /\ UNCHANGED << caught, alerts, outcome, overlaps >>
          ELSE IF path = "popup"
            THEN /\ pc' = [pc EXCEPT ![a] = "popup"]
                 /\ UNCHANGED << caught, alerts, outcome, overlaps >>
          ELSE HandleFailure(a, ErrorObj(NOT_INITIALIZED_MSG))
  /\ UNCHANGED << envVars, now, bootVars, panel, msAuthResponse, commerceAuth, cookies,
                  authHeader, emitted, wrote, requestSent, lastResult >>

\* a call of the exported handleMsSsoLogin from outside the trigger control
Start(a) ==
  /\ StartAttempt(a)
  /\ UNCHANGED uiVars

\* loginWithMicrosoft returned: exchangeTokenWithBackend runs to await fetch(...)
Acquired(a, response) ==
  /\ msAuthResponse' = [msAuthResponse EXCEPT ![a] = response]
  /\ requestSent' = [requestSent EXCEPT ![a] = TRUE]
  /\ pc' = [pc EXCEPT ![a] = "fetch"]
  /\ UNCHANGED << overlaps, uiVars, envVars, now, bootVars, panel, commerceAuth, caught, outcome, alerts, cookies,
                  authHeader, emitted, wrote, popupOpened, lastResult >>

\* a stage threw or its promise rejected: control reaches the catch block
Failed(a, error) ==
  /\ HandleFailure(a, error)
  /\ UNCHANGED << uiVars, envVars, now, bootVars, panel, msAuthResponse, commerceAuth, cookies, authHeader,
                  emitted, wrote, popupOpened, requestSent, lastResult >>

\* the 1000 ms timer of the localhost branch fires
DelayElapsed(a) ==
  /\ pc[a] = "delay"
  /\ Acquired(a, MockMsResponse)

PopupResolves(a) ==
  /\ pc[a] = "popup"
  /\ Acquired(a, ProviderMsResponse)

PopupRejects(a, error) ==
  /\ pc[a] = "popup"
  /\ Failed(a, error)

FetchResolves(a) ==
  /\ pc[a] = "fetch"
  /\ pc' = [pc EXCEPT ![a] = "json"]
  /\ UNCHANGED << overlaps, uiVars, envVars, now, bootVars, panel, msAuthResponse, commerceAuth, caught, outcome, alerts,
                  cookies, authHeader, emitted, wrote, popupOpened, requestSent,
                  lastResult >>

FetchRejects(a, error) ==
  /\ pc[a] = "fetch"
  /\ Failed(a, error)

\* response.json() rejects with a SyntaxError
JsonRejects(a) ==
  /\ pc[a] = "json"
  /\ Failed(a, ErrorObj(JSON_SYNTAXERROR_MSG))

\* response.json() resolves: the body is validated
JsonResolves(a, result) ==
  /\ pc[a] = "json"
  /\ lastResult' = [attempt |-> a, result |-> result]
  /\ LET v == ValidateResult(result) IN
       IF v.ok
         THEN /\ commerceAuth' = [commerceAuth EXCEPT ![a] = v.value]
              /\ pc' = [pc EXCEPT ![a] = "exchanged"]
              /\ UNCHANGED << caught, outcome, alerts, overlaps >>
         ELSE /\ HandleFailure(a, v.error)
              /\ UNCHANGED << commerceAuth >>
  /\ UNCHANGED << uiVars, envVars, now, bootVars, panel, msAuthResponse, cookies, authHeader, emitted, wrote,
                  popupOpened, requestSent >>

\* exchangeTokenWithBackend returned: the cookies are set (new Date() reads a
\* clock that does not run backwards) and triggerAuthenticationEvent runs to
\* await import('../../scripts/commerce.js')
Persist(a, time) ==
  /\ pc[a] = "exchanged"
  /\ time >= now
  /\ now' = time
  /\ LET r == SetAuthenticationCookies(commerceAuth[a].commerce_customer_token,
                                       commerceAuth[a].firstName,
                                       time, hostname, protocol, a) IN
       /\ cookies' = [n \in CookieNames |->
                        IF n \in r.written THEN r.cookies[n] ELSE cookies[n]]
       /\ wrote' = [wrote EXCEPT ![a] = @ \cup r.written]
       /\ IF r.threw
            THEN HandleFailure(a, ErrorObj(SUBSTRING_TYPEERROR_MSG))
            ELSE /\ pc' = [pc EXCEPT ![a] = "import"]
                 /\ UNCHANGED << caught, outcome, alerts, overlaps >>
  /\ UNCHANGED << uiVars, envVars, bootVars, panel, msAuthResponse, commerceAuth, authHeader,
                  emitted, popupOpened, requestSent, lastResult >>

\* variant: the event is emitted right after the exchange, the cookie step left out
Notify_BeforeCookies(a, importOutcome) ==
  /\ pc[a] \in {"exchanged", "import"}
  /\ authHeader' = HeaderAfter(authHeader, importOutcome,
                               commerceAuth[a].commerce_customer_token)
  /\ emitted' = Append(emitted, AuthenticatedEvent(a))
  /\ panel' = IF panel = "shown" THEN "closed" ELSE panel
  /\ outcome' = [outcome EXCEPT ![a] = "true"]
  /\ pc' = [pc EXCEPT ![a] = "done"]
  /\ overlaps' = overlaps \cup { b \in Attempts \ {a} : InFlight(b) }
  /\ UNCHANGED << uiVars, envVars, now, bootVars, msAuthResponse, commerceAuth, caught,
                  alerts, cookies, wrote, popupOpened, requestSent, lastResult >>

\* the import settles: header (best effort), emit, panel closed, return true
Notify(a, importOutcome) ==
  /\ pc[a] = "import"
  /\ authHeader' = HeaderAfter(authHeader, importOutcome,
                               commerceAuth[a].commerce_customer_token)
  /\ emitted' = Append(emitted, AuthenticatedEvent(a))
  /\ panel' = IF panel = "shown" THEN "closed" ELSE panel
  /\ outcome' = [outcome EXCEPT ![a] = "true"]
  /\ pc' = [pc EXCEPT ![a] = "done"]
  /\ overlaps' = overlaps \cup { b \in Attempts \ {a} : InFlight(b) }
  /\ UNCHANGED << uiVars, envVars, now, bootVars, msAuthResponse, commerceAuth, caught,
                  alerts, cookies, wrote, popupOpened, requestSent, lastResult >>

Next ==
  \/ BootImportResolves
  \/ BootImportRejects
  \/ LoadScriptRejects
  \/ \E global \in MsalGlobals : LoadScriptResolves(global)
  \/ InitializeResolves
  \/ InitializeRejects
  \/ \E a \in Attempts : Start(a)
  \/ \E a \in Attempts : DelayElapsed(a)
  \/ \E a \in Attempts : PopupResolves(a)
  \/ \E a \in Attempts, error \in RejectionValues : PopupRejects(a, error)
  \/ \E a \in Attempts : FetchResolves(a)
  \/ \E a \in Attempts, error \in RejectionValues : FetchRejects(a, error)
  \/ \E a \in Attempts : JsonRejects(a)
  \/ \E a \in Attempts, result \in BackendResults : JsonResolves(a, result)
  \/ \E a \in Attempts, time \in 0..MaxClock : Persist(a, time)
  \/ \E a \in Attempts, importOutcome \in ImportOutcomes : Notify(a, importOutcome)

Spec == Init /\ [][Next]_vars

(* ------------------- trigger control: addMsSsoButton ------------------ *)

\* the button addMsSsoButton creates, with its one click listener; awaiting is
\* the attempt the running click handler is suspended on (0: no handler runs)
NewButton == [className |-> "ms-sso-button", disabled |-> FALSE,
              textContent |-> "MS SSO", listeners |-> 1, awaiting |-> 0]

\* container.querySelector('.ms-sso-button')
HasMsSsoButton(children) ==
  \E i \in 1..Len(children) : children[i].className = "ms-sso-button"

\* variant: no test for a button that is already there
ChildrenAfterAdd_NoGuard(children) == Append(children, NewButton)

\* addMsSsoButton: the children of the container after the call
ChildrenAfterAdd(children) ==
  IF HasMsSsoButton(children) THEN children ELSE Append(children, NewButton)

\* addMsSsoButton(container)
AddMsSsoButton(c) ==
  /\ addCalls[c] < MaxAddCalls
  /\ addCalls' = [addCalls EXCEPT ![c] = @ + 1]
  /\ buttons' = [buttons EXCEPT ![c] = ChildrenAfterAdd(@)]
  /\ UNCHANGED << envVars, now, bootVars, attemptVars, overlaps >>

\* a click on an enabled trigger control: the handler disables the button,
\* changes its label and calls handleMsSsoLogin, which runs to its first await
Click(c, i, a) ==
  /\ i \in 1..Len(buttons[c])
  /\ ~buttons[c][i].disabled
  /\ buttons[c][i].listeners > 0
  /\ buttons' = [buttons EXCEPT ![c][i].disabled = TRUE,
                                ![c][i].textContent = "Signing in...",
                                ![c][i].awaiting = a]
  /\ StartAttempt(a)
  /\ UNCHANGED addCalls

\* the await of handleMsSsoLogin in the click handler settles: on a resolved
\* promise the button is enabled and its label restored; on a rejected one the
\* handler ends with that rejection and the two assignments are not reached
ClickHandlerResumes(c, i) ==
  /\ i \in 1..Len(buttons[c])
  /\ buttons[c][i].awaiting \in Attempts
  /\ pc[buttons[c][i].awaiting] = "done"
  /\ buttons' = IF outcome[buttons[c][i].awaiting] = "rejected"
                  THEN [buttons EXCEPT ![c][i].awaiting = 0]
                  ELSE [buttons EXCEPT ![c][i].awaiting = 0,
                                       ![c][i].disabled = FALSE,
                                       ![c][i].textContent = "MS SSO"]
  /\ UNCHANGED << envVars, now, bootVars, attemptVars, overlaps, addCalls >>

UiNext ==
  \/ Next
  \/ \E c \in Containers : AddMsSsoButton(c)
  \/ \E c \in Containers, i \in 1..MaxAddCalls, a \in Attempts : Click(c, i, a)
  \/ \E c \in Containers, i \in 1..MaxAddCalls : ClickHandlerResumes(c, i)

\* the bridge together with the trigger controls
UiSpec == Init /\ [][UiNext]_vars

(* ------------------------------ properties ---------------------------- *)

\* number of `authenticated` events an attempt has emitted
EmittedBy(a) ==
  Cardinality({ i \in 1..Len(emitted) :
                  emitted[i].by = a /\ emitted[i].topic = "authenticated" })

\* the attempt ended in the catch block, which returned false
ReturnedFalse(a) == pc[a] = "done" /\ outcome[a] = "false"

\* the attempt neither assigned a cookie nor emitted the event
NoSessionEffect(a) == wrote[a] = {} /\ EmittedBy(a) = 0

ValidT1 == DataWith(SsoLogin(Str("T1"), Str("Jayesh")))

C2_MissingTokenFails ==
  LET a == lastResult.attempt
      r == lastResult.result
  IN (/\ a \in Attempts
      /\ ~r.errors.present
      /\ \/ ~r.data.present
         \/ ~r.data.ssoPresent
         \/ r.data.ssoLogin.commerce_customer_token.t = "undefined") =>
       /\ ReturnedFalse(a)
       /\ caught[a] = ErrorObj("No commerce token received from backend")
       /\ NoSessionEffect(a)

\* an attempt received {data:{ssoLogin:{firstName:"X"}}} and failed
C2_Witness ==
  /\ lastResult.attempt \in Attempts
  /\ lastResult.result = [errors |-> NoErrors, data |-> DataWith(SsoLogin(Undefined, Str("X")))]
  /\ ReturnedFalse(lastResult.attempt)

\* handleMsSsoLogin of attempt a returns true in this step
ReturnsTrue(a) == outcome[a] = "pending" /\ outcome'[a] = "true"

\* C3 as stated: when handleMsSsoLogin returns true, both cookies exist with the
\* values of the credential that attempt received and the same expiry, and the
\* attempt has emitted `authenticated` exactly once.
C3_OwnCredentialInCookies ==
  [][\A a \in Attempts : ReturnsTrue(a) =>
       /\ cookies'[TOKEN_COOKIE].set /\ cookies'[FIRSTNAME_COOKIE].set
       /\ cookies'[TOKEN_COOKIE].value = ToStr(commerceAuth'[a].commerce_customer_token)
       /\ cookies'[FIRSTNAME_COOKIE].value = ToStr(commerceAuth'[a].firstName)
       /\ cookies'[TOKEN_COOKIE].expires = cookies'[FIRSTNAME_COOKIE].expires
       /\ EmittedBy(a)' = 1]_vars

\* C3 (amended): when handleMsSsoLogin returns true, the attempt has written both
\* cookies, both cookies exist with the same expiry and hold the values of the
\* credential of the attempt that wrote them last, and the attempt has emitted
\* `authenticated` exactly once.
C3_LastWriterCredentialInCookies ==
  [][\A a \in Attempts : ReturnsTrue(a) =>
       /\ wrote'[a] = CookieNames
       /\ cookies'[TOKEN_COOKIE].set /\ cookies'[FIRSTNAME_COOKIE].set
       /\ cookies'[TOKEN_COOKIE].expires = cookies'[FIRSTNAME_COOKIE].expires
       /\ LET b == cookies'[TOKEN_COOKIE].by IN
            /\ b \in Attempts
            /\ cookies'[FIRSTNAME_COOKIE].by = b
            /\ cookies'[TOKEN_COOKIE].value = ToStr(commerceAuth'[b].commerce_customer_token)
            /\ cookies'[FIRSTNAME_COOKIE].value = ToStr(commerceAuth'[b].firstName)
       /\ EmittedBy(a)' = 1]_vars

\* an attempt returned true while the cookies hold what a later writer stored
C3_Witness ==
  \E a, b \in Attempts :
    /\ a # b
    /\ outcome[a] = "true"
    /\ pc[b] = "import"
    /\ cookies[TOKEN_COOKIE].by = b
    /\ commerceAuth[a] # commerceAuth[b]

\* C4: every emission of `authenticated` is preceded, in the same attempt, by
\* the write of both cookies.
C4_EmitAfterCookies ==
  [][\A a \in Attempts : EmittedBy(a)' > EmittedBy(a) =>
       /\ wrote[a] = CookieNames
       /\ cookies[TOKEN_COOKIE].set /\ cookies[FIRSTNAME_COOKIE].set]_vars

\* an attempt has emitted the event
C4_Witness == \E a \in Attempts : EmittedBy(a) = 1 /\ wrote[a] = CookieNames

\* C5: an attempt that did not complete successfully (returned false, or its
\* promise rejected) has written neither cookie.
C5_NoFailureAfterCookies ==
  \A a \in Attempts :
    (pc[a] = "done" /\ outcome[a] # "true") => wrote[a] = {}

\* an attempt received a truthy token that is no string, and failed
C5_Witness ==
  /\ lastResult.attempt \in Attempts
  /\ lastResult.result = [errors |-> NoErrors, data |-> DataWith(SsoLogin(Num42, Str("Jayesh")))]
  /\ ReturnedFalse(lastResult.attempt)
  /\ \E b \in Attempts : outcome[b] = "true"

\* the text of a value a stage failed with
ErrorText(e) == IF e.t = "Error" THEN e.v ELSE ToStr(e)

\* C6: whatever value a stage fails with, the attempt shows one message with the
\* error's text and its promise resolves to false.
C6_NeverRethrows ==
  \A a \in Attempts :
    (pc[a] = "done" /\ outcome[a] # "true") =>
      /\ outcome[a] = "false"
      /\ alerts[a] = << "Login failed: " \o ErrorText(caught[a]) >>

\* the bootstrap has ended without a usable client
BootstrapFailed == bootPc \in {"degraded", "rejected"}

\* C7: when the bootstrap fails, no exception leaves initializeMSAL and the
\* singleton is unset.
C7_FailedBootstrapLeavesNull ==
  BootstrapFailed => (bootPc # "rejected" /\ msalInstance = NullInstance)

C9_LocalhostUsesFixture ==
  hostname = "localhost" =>
    \A a \in Attempts :
      /\ ~popupOpened[a]
      /\ pc[a] # "idle" =>
           \/ pc[a] = "delay" /\ outcome[a] = "pending"
           \/ msAuthResponse[a].source = "mock"

\* on localhost, attempts acquired the fixture with the singleton set but not
\* yet initialized
C9_Witness ==
  /\ hostname = "localhost"
  /\ bootPc = "initialize"
  /\ \E a, b \in Attempts :
       /\ msAuthResponse[a] = MockMsResponse /\ requestSent[a]
       /\ msAuthResponse[b] = MockMsResponse /\ outcome[b] = "true"

\* C10: in no state does one of the two cookies exist without the other, and
\* both come from the same write.
C10_CookiesTogether ==
  /\ cookies[TOKEN_COOKIE].set <=> cookies[FIRSTNAME_COOKIE].set
  /\ cookies[TOKEN_COOKIE].by = cookies[FIRSTNAME_COOKIE].by
  /\ \A a \in Attempts : wrote[a] \in {{}, CookieNames}

\* both cookies exist while two attempts are between their steps
C10_Witness ==
  /\ cookies[TOKEN_COOKIE].set /\ cookies[FIRSTNAME_COOKIE].set
  /\ \E a, b \in Attempts :
       /\ pc[a] = "import"
       /\ pc[b] = "exchanged"
       /\ commerceAuth[b].firstName = Undefined

\* C12: the cookies carry Secure exactly when the hostname is not localhost and
\* the protocol is not http:; path=/ and SameSite=Lax are always there; both
\* cookies have the same attributes.
C12_SecureOnlyOffLocalHttps ==
  \A n \in CookieNames : cookies[n].set =>
    /\ cookies[n].secure <=> (hostname # "localhost" /\ protocol # "http:")
    /\ cookies[n].path = "/"
    /\ cookies[n].sameSite = "Lax"
    /\ \A m \in CookieNames :
         /\ cookies[m].set
         /\ cookies[m].secure = cookies[n].secure
         /\ cookies[m].path = cookies[n].path
         /\ cookies[m].sameSite = cookies[n].sameSite
         /\ cookies[m].expires = cookies[n].expires

\* the cookies were written on https://localhost, without Secure
C12_Witness ==
  /\ hostname = "localhost"
  /\ protocol = "https:"
  /\ cookies[TOKEN_COOKIE].set /\ ~cookies[TOKEN_COOKIE].secure
  /\ cookies[FIRSTNAME_COOKIE].set /\ ~cookies[FIRSTNAME_COOKIE].secure

\* attempt b returns true in this step, and another attempt returned true
\* while b was in flight
SecondOfOverlappingReturnsTrue(b) == ReturnsTrue(b) /\ b \in overlaps

\* every attempt that returned true has emitted `authenticated` exactly once
OneEventPerSuccess == \A c \in Attempts : outcome[c] = "true" => EmittedBy(c) = 1

\* C14 as stated: when two overlapping attempts have both returned true, the two
\* cookies and the Authorization header (when one is set) stem from the same
\* credential, and each successful attempt has emitted `authenticated` once.
C14_OverlapSameCredential ==
  [][\A b \in Attempts : SecondOfOverlappingReturnsTrue(b) =>
       /\ \E c \in Attempts :
            /\ cookies'[TOKEN_COOKIE].by = c /\ cookies'[FIRSTNAME_COOKIE].by = c
            /\ cookies'[TOKEN_COOKIE].value = ToStr(commerceAuth'[c].commerce_customer_token)
            /\ cookies'[FIRSTNAME_COOKIE].value = ToStr(commerceAuth'[c].firstName)
            /\ authHeader' # NoHeader =>
                 authHeader' = "Bearer " \o ToStr(commerceAuth'[c].commerce_customer_token)
       /\ OneEventPerSuccess']_vars

\* C14 (amended): when two overlapping attempts have both returned true, the two
\* cookies stem from one credential, that of the attempt that wrote them last;
\* the Authorization header, when set, carries the token of an attempt that
\* returned true, not necessarily the one in the cookies; each successful
\* attempt has emitted `authenticated` once.
C14_OverlapCookiesLastWriter ==
  [][\A b \in Attempts : SecondOfOverlappingReturnsTrue(b) =>
       /\ \E c \in Attempts :
            /\ wrote'[c] = CookieNames
            /\ cookies'[TOKEN_COOKIE].by = c /\ cookies'[FIRSTNAME_COOKIE].by = c
            /\ cookies'[TOKEN_COOKIE].value = ToStr(commerceAuth'[c].commerce_customer_token)
            /\ cookies'[FIRSTNAME_COOKIE].value = ToStr(commerceAuth'[c].firstName)
       /\ authHeader' # NoHeader =>
            \E d \in Attempts :
              /\ outcome'[d] = "true"
              /\ authHeader' = "Bearer " \o ToStr(commerceAuth'[d].commerce_customer_token)
       /\ OneEventPerSuccess']_vars

\* two overlapping attempts returned true; the cookies hold the credential of
\* one, the header the token of the other
C14_Witness ==
  \E a, b \in Attempts :
    /\ a # b
    /\ b \in overlaps
    /\ outcome[a] = "true" /\ outcome[b] = "true"
    /\ cookies[TOKEN_COOKIE].by = a
    /\ cookies[TOKEN_COOKIE].value = "T1"
    /\ authHeader = "Bearer T2"
    /\ commerceAuth[b].commerce_customer_token = Str("T2")

\* C15: loginPopup is only called on a singleton whose initialize() has resolved.
C15_PopupOnlyOnInitializedClient ==
  [][\A a \in Attempts : (~popupOpened[a] /\ popupOpened'[a]) =>
       msalInstance.initialized]_vars

\* the trigger controls in a container
MsSsoButtons(c) ==
  { i \in 1..Len(buttons[c]) : buttons[c][i].className = "ms-sso-button" }

\* C11: after one or more calls of addMsSsoButton on a container, whatever clicks
\* and login attempts came between, the container holds exactly one trigger
\* control and that control has exactly one click handler.
C11_OneButtonPerContainer ==
  \A c \in Containers : addCalls[c] >= 1 =>
    /\ Cardinality(MsSsoButtons(c)) = 1
    /\ \A i \in MsSsoButtons(c) : buttons[c][i].listeners = 1

\* addMsSsoButton was called again while the handler of a click was suspended
C11_Witness ==
  \E c \in Containers :
    /\ addCalls[c] = MaxAddCalls
    /\ Len(buttons[c]) = 1
    /\ buttons[c][1].disabled
    /\ buttons[c][1].awaiting \in Attempts

\* C13: the control is disabled while the attempt its click started runs, no
\* click starts an attempt from a disabled control, and once the click handler
\* is over the control is enabled again with the label 'MS SSO', however the
\* attempt ended.
C13_ButtonReenabled ==
  \A c \in Containers : \A i \in 1..Len(buttons[c]) :
    /\ buttons[c][i].awaiting \in Attempts =>
         buttons[c][i].disabled /\ buttons[c][i].textContent = "Signing in..."
    /\ buttons[c][i].awaiting = 0 =>
         ~buttons[c][i].disabled /\ buttons[c][i].textContent = "MS SSO"

====
